---- MODULE Spec2Model ----
(***************************************************************************)
(* Model of robin's event-correlation layer and session orchestrator.      *)
(*                                                                         *)
(*   agent/client.py                        RobinAgent (the orchestrator)  *)
(*   backend/app/services/agent_service.py  AgentService (the correlator)  *)
(*   backend/app/models/investigation.py    the SSE event payloads         *)
(*   agent/tools.py                         the tools of the agent         *)
(*                                                                         *)
(* One AgentService drives one investigation.  RobinAgent.investigate      *)
(* consumes the reasoning engine's stream and calls the three AgentService *)
(* callbacks synchronously; every callback hands its events to the event   *)
(* loop with asyncio.create_task.  The event loop is modelled as asyncio   *)
(* runs it: a FIFO ready queue whose tasks run only when the coroutine     *)
(* that drives the session yields, and then all of them run before the     *)
(* driver is resumed.  Whether the driver yields between two signals of    *)
(* the engine stream is not decided by this code (several blocks of one    *)
(* AssistantMessage are handled without any await in between), so it is a  *)
(* nondeterministic choice.                                                *)
(*                                                                         *)
(* Time is counted in whole milliseconds.  Text is a sequence of           *)
(* characters.  Optional values: tool ids are positive and 0 is None, the  *)
(* session id "None" is None, an optional record is a sequence of length   *)
(* at most one.                                                            *)
(*                                                                         *)
(* The specifications share the variables: Spec (one session),             *)
(* RegistrySpec (the registry of active agents), ToolsSpec (one call of a  *)
(* tool), WorkersSpec (the registry of worker kinds and the delegation)    *)
(* and InvestigateSpec (one run of the generator RobinAgent.investigate);  *)
(* each leaves the others' variables as Init sets them.                    *)
(***************************************************************************)
EXTENDS Integers, Sequences, FiniteSets, TLC

(***************************************************************************)
(* Bounds of the exploration.                                              *)
(***************************************************************************)
MaxSteps == 4
MaxTime  == 1
MaxOps   == 3
MaxHits  == 2
MaxTargets == 2
MaxKinds == 2
MaxEdits == 3
MaxMessages == 3

DELEGATE == "mcp__robin__delegate_analysis"
SEARCH   == "mcp__robin__darkweb_search"

\* A tool input is a dict; the only key the correlator reads is
\* "agent_types".  A dict is a function from its keys.
NoKeys == [k \in {} |-> <<>>]
WithAgentTypes(l) == [k \in {"agent_types"} |-> l]
AgentTypes == <<"ioc", "malware">>

\* The tool-use blocks of the exploration: <<name, input>>.
ToolUses == {<<SEARCH, WithAgentTypes(AgentTypes)>>,
             <<DELEGATE, WithAgentTypes(AgentTypes)>>}

Texts       == {<<"a">>}
ResultTexts == {<<>>, <<"a">>}
SessionIds  == {"s1"}
None        == "None"

\* The data of an init message: falsy, a dict without 'session_id', or a
\* dict with one.
InitDatas == {NoKeys} \cup {[k \in {"other"} |-> "x"]}
               \cup {[k \in {"session_id"} |-> s] : s \in SessionIds}

\* The registry of worker kinds (SUBAGENT_DESCRIPTIONS of agent/prompts.py):
\* the four kinds and their descriptions.
SUBAGENT_DESCRIPTIONS ==
  [k \in {"ThreatActorProfiler", "IOCExtractor", "MalwareAnalyst",
          "MarketplaceInvestigator"} |-> <<"description of", k>>]

VARIABLES
  \* ---- RobinAgent
  session_id,        \* RobinAgent.session_id
  agent_tools_used,  \* RobinAgent._tools_used
  inv_full_response, \* the local full_response of RobinAgent.investigate
  \* ---- AgentService
  current_tool_id,   \* AgentService._current_tool_id
  tool_start_time,   \* AgentService._tool_start_time
  tools_used,        \* AgentService._tools_used
  full_response,     \* AgentService._full_response
  result,            \* AgentService._result
  \* ---- the event loop and the sink
  ready,             \* asyncio's ready queue: the tasks made by create_task
  loop,              \* "driver": the session's coroutine runs; "tasks": it has yielded
  events,            \* the events handed to the sink, in delivery order
  next_tool_id,      \* the id the stream manager generates next
  \* ---- the driving call
  pc,                \* "idle", "start" (no message read yet), "stream", "after_result"
  call,              \* the current/last call: its number, kind, outcome
                     \* ("running", "returned", "raised"), resume token, returned
                     \* value, and whether its stream raised; and what its
                     \* stream delivered: the {name, input} pairs of its
                     \* ToolUseBlocks, the texts of its TextBlocks, the result
                     \* text of its ResultMessage (at most one), and whether
                     \* it is the first call after a reset_session
  fresh,             \* reset_session has been called and no call started since
  now,               \* time.time()
  \* ---- history, read by the properties only
  tags,              \* tags[i]: which signal and call produced events[i]
  sig_log,           \* sig_log[k]: the k-th tool-use signal the service saw
  steps,             \* number of calls started and of stream messages handled
  \* ---- the registry of active agents (agent_service.py, module level)
  active_agents,     \* _active_agents: a dict from str(investigation_id) to agent
  reg_ret,           \* the last registry call: its name, id, returned value,
                     \* whether it raised, whether the id had an entry
  reg_hist,          \* history: the set_agent and remove_agent calls, in order
  \* ---- the tools (agent/tools.py)
  tool,              \* the last tool call: its name, its arguments, what the
                     \* client it calls did, and its response
  \* ---- the registry of worker kinds (agent/subagents.py)
  heap,              \* the dicts in memory: heap[1] is the registry, the others
                     \* are the mappings the lookups returned
  held,              \* the caller of the lookup: the mapping it holds (0: none)
                     \* and the number of lookups and changes it has made
  \* ---- RobinAgent.investigate as its caller sees it
  gen                \* the generator of one investigate call: its stream flag,
                     \* its locals, the chunks it has yielded and the arguments
                     \* its callbacks were called with, in order

agentVars   == <<session_id, agent_tools_used, inv_full_response>>
serviceVars == <<current_tool_id, tool_start_time, tools_used, full_response, result>>
loopVars    == <<ready, loop, events, next_tool_id, tags>>
sessionVars == <<session_id, agent_tools_used, inv_full_response,
                 current_tool_id, tool_start_time, tools_used, full_response,
                 result, ready, loop, events, next_tool_id,
                 pc, call, fresh, now, tags, sig_log, steps>>
registryVars == <<active_agents, reg_ret, reg_hist>>
toolVars == <<tool, heap, held>>
vars == <<sessionVars, registryVars, toolVars, gen>>

(***************************************************************************)
(* Helpers.                                                                *)
(***************************************************************************)
\* dict.get(key, default)
Get(d, key, default) == IF key \in DOMAIN d THEN d[key] ELSE default

\* Python truthiness of a dict / a string / a list
Truthy(d) == DOMAIN d # {}

\* s == t in the place of s in t: only a result text equal to the whole
\* text so far counts as already delivered.
IsSubstring_equal(s, t) == s = t

\* s in t, for strings
IsSubstring(s, t) ==
  \E i \in 0..(Len(t) - Len(s)) : SubSeq(t, i + 1, i + Len(s)) = s

Last(s) == s[Len(s)]

\* int((time.time() - start) * 1000), the clock counted in milliseconds
DurationMs(t, start) == t - start

\* InvestigationResult(text, session_id, tools_used); duration_ms and
\* num_turns are copied from the result message and decide nothing.
InvestigationResult(text, sid, tools) ==
  [text |-> text, session_id |-> sid, tools_used |-> tools]

(***************************************************************************)
(* The SSE events (models/investigation.py): SSEEvent is {type, data}.     *)
(***************************************************************************)
SSEEvent(type, data) == [type |-> type, data |-> data]

TextEvent(text) == SSEEvent("text", [content |-> text])
ToolStartEvent(id, name, input_data) ==
  SSEEvent("tool_start", [id |-> id, tool |-> name, input |-> input_data])
ToolEndEvent(id, name, duration) ==
  SSEEvent("tool_end", [id |-> id, tool |-> name, duration_ms |-> duration])
SubAgentStartEvent(agent_type) ==
  SSEEvent("subagent_start", [agent_type |-> agent_type])
CompleteEvent(text, sid) ==
  SSEEvent("complete", [text |-> text, session_id |-> sid])
ErrorEvent(message) ==
  SSEEvent("error", [message |-> message, code |-> "INVESTIGATION_ERROR"])

\* The history tag of an event: the tool-use signal it belongs to (0: none),
\* the call that produced it and, for a ToolEnd, the time of the signal that
\* closed the tool.
Tag(sig, c, at) == [sig |-> sig, call |-> c, at |-> at]

(***************************************************************************)
(* SSEStreamManager (backend/app/sse/stream.py): emit_* hand one event to  *)
(* the sink and return without yielding to the event loop.                 *)
(***************************************************************************)
Emit(evs, tgs) ==
  /\ events' = events \o evs
  /\ tags' = tags \o tgs

Init ==
  /\ session_id = None
  /\ agent_tools_used = <<>>
  /\ inv_full_response = <<>>
  /\ current_tool_id = 0
  /\ tool_start_time = 0
  /\ tools_used = <<>>
  /\ full_response = <<>>
  /\ result = <<>>
  /\ ready = <<>>
  /\ loop = "driver"
  /\ events = <<>>
  /\ next_tool_id = 1
  /\ pc = "idle"
  /\ call = [no |-> 0, kind |-> "none", outcome |-> "none", resume |-> None,
             value |-> <<>>, raised |-> FALSE,
             tools |-> <<>>, texts |-> <<>>, final |-> <<>>, fresh |-> FALSE]
  /\ fresh = FALSE
  /\ now = 0
  /\ tags = <<>>
  /\ sig_log = <<>>
  /\ steps = 0
  /\ active_agents = NoKeys
  /\ reg_ret = [op |-> "none", id |-> 0, value |-> None, raised |-> FALSE,
                present |-> FALSE]
  /\ reg_hist = <<>>
  /\ tool = [name |-> "none"]
  /\ heap = <<SUBAGENT_DESCRIPTIONS>>
  /\ held = [ref |-> 0, ops |-> 0]
  /\ gen = [pc |-> "none"]

(***************************************************************************)
(* The tasks handed to asyncio.create_task.  The arguments of a coroutine  *)
(* call are evaluated when the task is created, not when it runs.          *)
(***************************************************************************)
EmitTextTask(text) ==
  [kind |-> "emit_text", text |-> text, g |-> Tag(0, call.no, 0)]
EmitToolEndTask(id, name, duration, t) ==
  [kind |-> "emit_tool_end", id |-> id, tool |-> name, duration |-> duration,
   g |-> Tag(0, call.no, t)]
EmitStartTask(name, input_data, sig) ==
  [kind |-> "emit_start", name |-> name, input |-> input_data,
   g |-> Tag(sig, call.no, 0)]
EmitCompleteTask(res) ==
  [kind |-> "emit_complete", text |-> res.text, session_id |-> res.session_id,
   g |-> Tag(0, call.no, 0)]

(***************************************************************************)
(* AgentService: the three callbacks.  A callback is a function of the     *)
(* service's state (its fields and the ready queue it appends to).         *)
(***************************************************************************)
Svc ==
  [current_tool_id |-> current_tool_id, tool_start_time |-> tool_start_time,
   tools_used |-> tools_used, full_response |-> full_response,
   result |-> result, ready |-> ready]

SetSvc(s) ==
  /\ current_tool_id' = s.current_tool_id
  /\ tool_start_time' = s.tool_start_time
  /\ tools_used' = s.tools_used
  /\ full_response' = s.full_response
  /\ result' = s.result
  /\ ready' = s.ready

\* AgentService._on_text
on_text(s, text) ==
  [s EXCEPT !.full_response = s.full_response \o text,
            !.ready = Append(s.ready, EmitTextTask(text))]

\* _on_tool_use with the previous tool's name read after the append: the
\* ToolEnd of the previous tool carries the new tool's name.
on_tool_use_late_name(s, name, input_data, t) ==
  LET used == Append(s.tools_used, [name |-> name, input |-> input_data])
      q == IF s.current_tool_id # 0
             THEN Append(s.ready,
                         EmitToolEndTask(s.current_tool_id,
                                         Last(used).name,
                                         DurationMs(t, s.tool_start_time), t))
             ELSE s.ready
  IN [s EXCEPT !.tool_start_time = t,
               !.tools_used = used,
               !.ready = Append(q, EmitStartTask(name, input_data, Len(used)))]

\* AgentService._on_tool_use; t is the value of time.time()
on_tool_use(s, name, input_data, t) ==
  LET q == IF s.current_tool_id # 0
             THEN Append(s.ready,
                         EmitToolEndTask(s.current_tool_id,
                                         Last(s.tools_used).name,
                                         DurationMs(t, s.tool_start_time), t))
             ELSE s.ready
      used == Append(s.tools_used, [name |-> name, input |-> input_data])
  IN [s EXCEPT !.tool_start_time = t,
               !.tools_used = used,
               !.ready = Append(q, EmitStartTask(name, input_data, Len(used)))]

\* _on_complete scheduling emit_complete before the ToolEnd of the running
\* tool.
on_complete_before_end(s, res, t) ==
  LET q == Append(s.ready, EmitCompleteTask(res))
  IN [s EXCEPT !.result = <<res>>,
               !.ready = IF s.current_tool_id # 0
                           THEN Append(q,
                                  EmitToolEndTask(s.current_tool_id,
                                                  IF s.tools_used # <<>>
                                                    THEN Last(s.tools_used).name
                                                    ELSE "unknown",
                                                  DurationMs(t, s.tool_start_time), t))
                           ELSE q]

\* _on_complete without the test of _current_tool_id: a ToolEnd is
\* scheduled even when no tool has been announced.
on_complete_unguarded(s, res, t) ==
  LET q == Append(s.ready,
                  EmitToolEndTask(s.current_tool_id,
                                  IF s.tools_used # <<>>
                                    THEN Last(s.tools_used).name
                                    ELSE "unknown",
                                  DurationMs(t, s.tool_start_time), t))
  IN [s EXCEPT !.result = <<res>>,
               !.ready = Append(q, EmitCompleteTask(res))]

\* AgentService._on_complete; t is the value of time.time()
on_complete(s, res, t) ==
  LET q == IF s.current_tool_id # 0
             THEN Append(s.ready,
                         EmitToolEndTask(s.current_tool_id,
                                         IF s.tools_used # <<>>
                                           THEN Last(s.tools_used).name
                                           ELSE "unknown",
                                         DurationMs(t, s.tool_start_time), t))
             ELSE s.ready
  IN [s EXCEPT !.result = <<res>>,
               !.ready = Append(q, EmitCompleteTask(res))]

(***************************************************************************)
(* The event loop.                                                         *)
(***************************************************************************)
\* SSEStreamManager.emit_tool_start: generates the id of the invocation,
\* emits its ToolStart and returns the id.
emit_tool_start(name, input_data) ==
  [id |-> next_tool_id, event |-> ToolStartEvent(next_tool_id, name, input_data)]

\* emit_start announcing the workers before the tool: the ToolStart comes
\* after the WorkerStart events.
emit_start_workers_first(t) ==
  LET r == emit_tool_start(t.name, t.input)
  IN [current_tool_id |-> r.id,
      events |->
        (IF t.name = DELEGATE
           THEN LET agent_types == Get(t.input, "agent_types", <<>>)
                IN [i \in 1..Len(agent_types) |->
                      SubAgentStartEvent(agent_types[i])]
           ELSE <<>>) \o <<r.event>>]

\* emit_start without the test of the tool's name: every tool whose input
\* has agent_types announces workers.
emit_start_any_tool(t) ==
  LET r == emit_tool_start(t.name, t.input)
      agent_types == Get(t.input, "agent_types", <<>>)
  IN [current_tool_id |-> r.id,
      events |-> <<r.event>> \o
        [i \in 1..Len(agent_types) |-> SubAgentStartEvent(agent_types[i])]]

\* AgentService._on_tool_use.emit_start: the id it stores and the events it
\* emits.
emit_start(t) ==
  LET r == emit_tool_start(t.name, t.input)
  IN [current_tool_id |-> r.id,
      events |-> <<r.event>> \o
        (IF t.name = DELEGATE
           THEN LET agent_types == Get(t.input, "agent_types", <<>>)
                IN [i \in 1..Len(agent_types) |->
                      SubAgentStartEvent(agent_types[i])]
           ELSE <<>>)]

\* Run the task at the head of the ready queue.
RunTask ==
  /\ loop = "tasks"
  /\ ready # <<>>
  /\ LET t == Head(ready) IN
       CASE t.kind = "emit_text" ->
              /\ Emit(<<TextEvent(t.text)>>, <<t.g>>)
              /\ UNCHANGED <<current_tool_id, next_tool_id>>
         [] t.kind = "emit_tool_end" ->
              /\ Emit(<<ToolEndEvent(t.id, t.tool, t.duration)>>, <<t.g>>)
              /\ UNCHANGED <<current_tool_id, next_tool_id>>
         [] t.kind = "emit_start" ->
              LET r == emit_start(t) IN
              /\ Emit(r.events, [i \in 1..Len(r.events) |-> t.g])
              /\ current_tool_id' = r.current_tool_id
              /\ next_tool_id' = next_tool_id + 1
         [] t.kind = "emit_complete" ->
              /\ Emit(<<CompleteEvent(t.text, t.session_id)>>, <<t.g>>)
              /\ UNCHANGED <<current_tool_id, next_tool_id>>
  /\ ready' = Tail(ready)
  /\ loop' = IF Tail(ready) = <<>> THEN "driver" ELSE "tasks"
  /\ UNCHANGED <<agentVars, tool_start_time, tools_used, full_response, result,
                 pc, call, fresh, now, sig_log, steps>>
  /\ UNCHANGED <<registryVars, toolVars, gen>>

\* The coroutine driving the session awaits something that is not ready:
\* the tasks in the ready queue run before it is resumed.
Yield ==
  /\ loop = "driver"
  /\ ready # <<>>
  /\ loop' = "tasks"
  /\ UNCHANGED <<agentVars, serviceVars, ready, events, next_tool_id, tags,
                 pc, call, fresh, now, sig_log, steps>>
  /\ UNCHANGED <<registryVars, toolVars, gen>>

(***************************************************************************)
(* RobinAgent.                                                             *)
(***************************************************************************)
\* _build_options without the session test: the options never resume.
build_options_fresh == None

\* RobinAgent._build_options: the resume token of the options.  The session
\* ids of the engine are non-empty strings, so `if self.session_id` tests
\* for None.
build_options == IF session_id # None THEN session_id ELSE None

InCall == pc \in {"start", "stream"}

\* AgentService._full_response when the stream of a call starts:
\* follow_up resets it (line 140), investigate does not.
start_full_response(kind) ==
  IF kind = "follow_up" THEN <<>> ELSE full_response

\* AgentService.investigate / follow_up up to the first message of the
\* stream: follow_up resets _full_response, RobinAgent.investigate resets
\* its tool log and its text buffer and builds the options.  The owner of a
\* session drops it when a call has raised.
StartCall(kind) ==
  /\ pc = "idle"
  /\ loop = "driver"
  /\ steps < MaxSteps
  /\ steps' = steps + 1
  /\ call.outcome # "raised"
  /\ pc' = "start"
  /\ call' = [no |-> call.no + 1, kind |-> kind, outcome |-> "running",
              resume |-> build_options, value |-> <<>>, raised |-> FALSE,
              tools |-> <<>>, texts |-> <<>>, final |-> <<>>, fresh |-> fresh]
  /\ fresh' = FALSE
  /\ full_response' = start_full_response(kind)
  /\ agent_tools_used' = <<>>
  /\ inv_full_response' = <<>>
  /\ UNCHANGED <<session_id, current_tool_id, tool_start_time, tools_used,
                 result, loopVars, now, sig_log>>
  /\ UNCHANGED <<registryVars, toolVars, gen>>

investigate == StartCall("investigate")
follow_up == StartCall("follow_up")

\* The init message: client.py lines 128-131.
InitMessage(data) ==
  /\ pc = "start"
  /\ loop = "driver"
  /\ steps < MaxSteps
  /\ steps' = steps + 1
  /\ session_id' = IF Truthy(data) THEN Get(data, "session_id", None)
                   ELSE session_id
  /\ pc' = "stream"
  /\ UNCHANGED <<agent_tools_used, inv_full_response, serviceVars, loopVars,
                 call, fresh, now, sig_log>>
  /\ UNCHANGED <<registryVars, toolVars, gen>>

\* A TextBlock of an AssistantMessage.
TextBlock(text) ==
  /\ InCall
  /\ loop = "driver"
  /\ steps < MaxSteps
  /\ steps' = steps + 1
  /\ inv_full_response' = inv_full_response \o text
  /\ SetSvc(on_text(Svc, text))
  /\ pc' = "stream"
  /\ call' = [call EXCEPT !.texts = Append(@, text)]
  /\ UNCHANGED <<session_id, agent_tools_used, loop, events, next_tool_id,
                 tags, fresh, now, sig_log>>
  /\ UNCHANGED <<registryVars, toolVars, gen>>

\* Is the tool of the k-th tool-use signal open: announced and not ended?
StartPos(k) == {i \in 1..Len(events) :
                  events[i].type = "tool_start" /\ tags[i].sig = k}
IdOfSig(k) == events[CHOOSE i \in StartPos(k) : TRUE].data.id
EndPos(id) == {i \in 1..Len(events) :
                 events[i].type = "tool_end" /\ events[i].data.id = id}
IsOpen(k) == StartPos(k) # {} /\ EndPos(IdOfSig(k)) = {}

\* The values time.time() can return: the clock does not go back.  Only
\* differences of readings are used, and the first tool-use signal takes
\* the first reading.
Clock == IF tools_used = <<>> THEN {now} ELSE now..MaxTime

\* The tool log kept as a set of pairs: a pair already in the log is not
\* appended again.
record_tool_use_once(log, name, input_data) ==
  IF \E i \in 1..Len(log) : log[i] = [name |-> name, input |-> input_data]
    THEN log
    ELSE Append(log, [name |-> name, input |-> input_data])

\* self._tools_used.append({"name": tool_name, "input": tool_input})
record_tool_use(log, name, input_data) ==
  Append(log, [name |-> name, input |-> input_data])

\* A ToolUseBlock of an AssistantMessage, handled at time t.
ToolUseBlock(name, input_data, t) ==
  /\ InCall
  /\ loop = "driver"
  /\ steps < MaxSteps
  /\ steps' = steps + 1
  /\ agent_tools_used' = record_tool_use(agent_tools_used, name, input_data)
  /\ SetSvc(on_tool_use(Svc, name, input_data, t))
  /\ now' = t
  /\ sig_log' = Append(sig_log,
       [time |-> t, call |-> call.no,
        prev_open |-> tools_used # <<>> /\ IsOpen(Len(tools_used)),
        prev_id |-> IF tools_used # <<>> /\ IsOpen(Len(tools_used))
                      THEN IdOfSig(Len(tools_used)) ELSE 0])
  /\ pc' = "stream"
  /\ call' = [call EXCEPT
                !.tools = Append(@, [name |-> name, input |-> input_data])]
  /\ UNCHANGED <<session_id, inv_full_response, loop, events, next_tool_id,
                 tags, fresh>>
  /\ UNCHANGED <<registryVars, toolVars, gen>>

\* The ResultMessage (client.py lines 153-173), handled at time t.
ResultMessage(result_text, t) ==
  /\ InCall
  /\ loop = "driver"
  /\ steps < MaxSteps
  /\ steps' = steps + 1
  /\ LET appended == /\ result_text # <<>>
                     /\ ~IsSubstring(result_text, inv_full_response)
         text == IF appended THEN inv_full_response \o result_text
                 ELSE inv_full_response
         s1 == IF appended THEN on_text(Svc, result_text) ELSE Svc
         res == InvestigationResult(text, session_id, agent_tools_used)
     IN /\ inv_full_response' = text
        /\ SetSvc(on_complete(s1, res, t))
  /\ now' = t
  /\ pc' = "after_result"
  /\ call' = [call EXCEPT !.final = <<result_text>>]
  /\ UNCHANGED <<session_id, agent_tools_used, loop, events, next_tool_id,
                 tags, fresh, sig_log>>
  /\ UNCHANGED <<registryVars, toolVars, gen>>

\* The stream is exhausted: AgentService.investigate / follow_up return.
StreamEnd ==
  /\ pc \in {"start", "stream", "after_result"}
  /\ loop = "driver"
  /\ pc' = "idle"
  /\ call' = [call EXCEPT !.outcome = "returned",
                !.value = IF result # <<>> THEN result
                          ELSE <<InvestigationResult(full_response, None, <<>>)>>]
  /\ UNCHANGED <<agentVars, serviceVars, loopVars, fresh, now, sig_log, steps>>
  /\ UNCHANGED <<registryVars, toolVars, gen>>

\* The except clause without its raise: the failure is swallowed and the
\* call returns the text streamed so far.
except_clause_swallow(e) ==
  [events |-> <<ErrorEvent(e)>>, outcome |-> "returned",
   value |-> <<InvestigationResult(full_response, None, <<>>)>>]

\* The except clause of AgentService.investigate / follow_up: it awaits
\* emit_error(str(e)) in the driving coroutine itself and re-raises.
except_clause(e) ==
  [events |-> <<ErrorEvent(e)>>, outcome |-> "raised", value |-> <<>>]

\* The stream raises.
StreamRaise ==
  /\ pc \in {"start", "stream", "after_result"}
  /\ loop = "driver"
  /\ LET h == except_clause("error") IN
       /\ Emit(h.events, [i \in 1..Len(h.events) |-> Tag(0, call.no, 0)])
       /\ call' = [call EXCEPT !.raised = TRUE, !.outcome = h.outcome,
                                !.value = h.value]
  /\ pc' = "idle"
  /\ UNCHANGED <<agentVars, serviceVars, ready, loop, next_tool_id, fresh,
                 now, sig_log, steps>>
  /\ UNCHANGED <<registryVars, toolVars, gen>>

\* reset_session without the first assignment: the session id is kept.
reset_session_keep_token ==
  /\ pc = "idle"
  /\ loop = "driver"
  /\ call.outcome = "returned"
  /\ ~fresh
  /\ session_id' = session_id
  /\ agent_tools_used' = <<>>
  /\ fresh' = TRUE
  /\ UNCHANGED <<inv_full_response, serviceVars, loopVars, pc, call, now,
                 sig_log, steps>>
  /\ UNCHANGED <<registryVars, toolVars, gen>>

\* RobinAgent.reset_session, called between two calls of a session.
reset_session ==
  /\ pc = "idle"
  /\ loop = "driver"
  /\ call.outcome = "returned"
  /\ ~fresh
  /\ session_id' = None
  /\ agent_tools_used' = <<>>
  /\ fresh' = TRUE
  /\ UNCHANGED <<inv_full_response, serviceVars, loopVars, pc, call, now,
                 sig_log, steps>>
  /\ UNCHANGED <<registryVars, toolVars, gen>>

Next ==
  \/ investigate
  \/ follow_up
  \/ reset_session
  \/ \E data \in InitDatas : InitMessage(data)
  \/ \E text \in Texts : TextBlock(text)
  \/ \E u \in ToolUses, t \in Clock : ToolUseBlock(u[1], u[2], t)
  \/ \E result_text \in ResultTexts, t \in Clock :
       ResultMessage(result_text, t)
  \/ StreamEnd
  \/ StreamRaise
  \/ Yield
  \/ RunTask

Spec == Init /\ [][Next]_vars

(***************************************************************************)
(* The registry of active agents: agent_service.py lines 168-184.  Each of *)
(* the three functions is one dict operation with no await in it, so a     *)
(* call is one step whatever the callers interleave.                       *)
(***************************************************************************)
\* The investigation ids of the exploration and their str().
UUIDs == {1, 2}
str(investigation_id) ==
  <<"00000000-0000-0000-0000-000000000001",
    "00000000-0000-0000-0000-000000000002">>[investigation_id]

\* The AgentService instances of the exploration.
Agents == {"agent_a", "agent_b"}

\* d[key] = value
dict_set(d, key, value) ==
  [k \in DOMAIN d \cup {key} |-> IF k = key THEN value ELSE d[k]]

\* del d[key] in the place of d.pop(key, None): an absent key raises
\* KeyError.
dict_pop_strict(d, key) ==
  IF key \in DOMAIN d
    THEN [d |-> [k \in DOMAIN d \ {key} |-> d[k]], raised |-> FALSE]
    ELSE [d |-> d, raised |-> TRUE]

\* d.pop(key, None)
dict_pop(d, key) ==
  [d |-> [k \in DOMAIN d \ {key} |-> d[k]], raised |-> FALSE]

RegRet(op, id, value, raised) ==
  [op |-> op, id |-> id, value |-> value, raised |-> raised,
   present |-> str(id) \in DOMAIN active_agents]

get_agent(investigation_id) ==
  /\ reg_ret' = RegRet("get_agent", investigation_id,
                       Get(active_agents, str(investigation_id), None), FALSE)
  /\ UNCHANGED <<active_agents, reg_hist, sessionVars, toolVars, gen>>

set_agent(investigation_id, agent) ==
  /\ Len(reg_hist) < MaxOps
  /\ active_agents' = dict_set(active_agents, str(investigation_id), agent)
  /\ reg_ret' = RegRet("set_agent", investigation_id, None, FALSE)
  /\ reg_hist' = Append(reg_hist, [op |-> "set_agent", id |-> investigation_id,
                                   agent |-> agent])
  /\ UNCHANGED <<sessionVars, toolVars, gen>>

remove_agent(investigation_id) ==
  /\ Len(reg_hist) < MaxOps
  /\ LET r == dict_pop(active_agents, str(investigation_id)) IN
       /\ active_agents' = r.d
       /\ reg_ret' = RegRet("remove_agent", investigation_id, None, r.raised)
  /\ reg_hist' = Append(reg_hist, [op |-> "remove_agent",
                                   id |-> investigation_id, agent |-> None])
  /\ UNCHANGED <<sessionVars, toolVars, gen>>

RegistryNext ==
  \/ \E id \in UUIDs : get_agent(id)
  \/ \E id \in UUIDs, agent \in Agents : set_agent(id, agent)
  \/ \E id \in UUIDs : remove_agent(id)

RegistrySpec == Init /\ [][RegistryNext]_vars

(***************************************************************************)
(* The search tool: agent/tools.py lines 17-80.  core.search, the client   *)
(* it calls, queries the roster of search engines and returns the          *)
(* deduplicated results.                                                   *)
(***************************************************************************)
\* The roster of sources, in its fixed order.
Sources == 1..3

\* The links of the exploration: two spellings of one link, and another.
Links == {"a.onion", "a.onion/", "b.onion"}

\* The key of a link for deduplication.
normalize(link) == IF link = "a.onion/" THEN "a.onion" ELSE link

\* What one source returns: a list of at most MaxHits links, none spelled
\* the same twice, or it fails.
RECURSIVE SeqsUpTo(_, _)
SeqsUpTo(S, n) ==
  IF n = 0 THEN {<<>>}
  ELSE SeqsUpTo(S, n - 1) \cup
       {Append(q, x) : q \in {r \in SeqsUpTo(S, n - 1) : Len(r) = n - 1}, x \in S}
SourceAnswers ==
  {[ok |-> TRUE, links |-> l] :
     l \in {q \in SeqsUpTo(Links, MaxHits) :
              \A i, j \in 1..Len(q) : q[i] = q[j] => i = j}}
    \cup {[ok |-> FALSE, links |-> <<>>]}

\* The entry a source returns for a link; the title tells the source.
Entry(source, link) == [title |-> <<"t", source>>, link |-> link]

\* The raw results of the sources up to source n, in roster order; a source
\* that fails contributes none.
RECURSIVE RawResults(_, _)
RawResults(answers, n) ==
  IF n = 0 THEN <<>>
  ELSE RawResults(answers, n - 1) \o
       (IF ~answers[n].ok THEN <<>>
        ELSE [i \in 1..Len(answers[n].links) |-> Entry(n, answers[n].links[i])])

\* The entries at the indices `keep`, in their order.
Pick(entries, keep) ==
  [k \in 1..Cardinality(keep) |->
     entries[CHOOSE i \in keep : Cardinality({j \in keep : j <= i}) = k]]

\* Deduplication that compares the links as they are spelled.
dedup_spelling(entries) ==
  Pick(entries, {i \in 1..Len(entries) :
                   \A j \in 1..(i - 1) : entries[j].link # entries[i].link})

\* Deduplication by normalized link, keeping the first entry seen.
dedup(entries) ==
  Pick(entries, {i \in 1..Len(entries) :
                   \A j \in 1..(i - 1) :
                     normalize(entries[j].link) # normalize(entries[i].link)})

\* The sources are queried concurrently: order[k] is the source that
\* completes k-th, and the pool hands over the answers as they arrive.
CompletionOrders ==
  {p \in [Sources -> Sources] : \A i, j \in Sources : p[i] = p[j] => i = j}
RosterOrder == [k \in Sources |-> k]
arrivals(answers, order) ==
  [k \in Sources |-> [source |-> order[k], answer |-> answers[order[k]]]]

\* The answers taken in the order of their arrival.
by_arrival(arrived) == [k \in Sources |-> arrived[k].answer]

\* The answers put back in the order of the roster.
by_roster(arrived) ==
  [s \in Sources |->
     arrived[CHOOSE k \in Sources : arrived[k].source = s].answer]

\* core.search.get_search_results, given what each source answers and the
\* order in which the sources complete.
get_search_results(answers, order) ==
  dedup(RawResults(by_roster(arrivals(answers, order)), Len(answers)))

\* query.replace(" ", "+")
replace_spaces(q) == [i \in 1..Len(q) |-> IF q[i] = " " THEN "+" ELSE q[i]]

DisplayLimit == 50

SearchArgs == {[k \in {"query"} |-> <<"a", " ", "b">>]}

\* Lines 40-80 with the "... and N more results." line written from the
\* display limit on.
search_response_from_limit(raises, results) ==
  LET total_count == Len(results) IN
  IF raises THEN [kind |-> "Search failed"]
  ELSE IF results = <<>> THEN [kind |-> "No results found"]
  ELSE [kind |-> "Found", total_count |-> total_count,
        display |-> SubSeq(results, 1,
                           IF total_count > DisplayLimit
                             THEN DisplayLimit ELSE total_count),
        more |-> IF total_count >= DisplayLimit
                   THEN <<total_count - DisplayLimit>> ELSE <<>>]

\* The response of darkweb_search (lines 40-80): the client raised, or it
\* returned `results`.  The response is told by the text it starts with;
\* `more` is the "... and N more results." line, when there is one.
search_response(raises, results) ==
  LET total_count == Len(results) IN
  IF raises THEN [kind |-> "Search failed"]
  ELSE IF results = <<>> THEN [kind |-> "No results found"]
  ELSE [kind |-> "Found", total_count |-> total_count,
        display |-> SubSeq(results, 1,
                           IF total_count > DisplayLimit
                             THEN DisplayLimit ELSE total_count),
        more |-> IF total_count > DisplayLimit
                   THEN <<total_count - DisplayLimit>> ELSE <<>>]

\* darkweb_search(args): the sources answer `answers` and complete in the
\* order `order`, or the client raises.
darkweb_search(args, answers, order, raises) ==
  LET query == args["query"]
      max_workers == Get(args, "max_workers", 5)
      results == IF raises THEN <<>> ELSE get_search_results(answers, order)
  IN /\ tool' = [name |-> "darkweb_search",
                 client_query |-> replace_spaces(query),
                 client_max_workers |-> max_workers,
                 answers |-> answers, order |-> order, raises |-> raises,
                 results |-> results,
                 response |-> search_response(raises, results)]
     /\ UNCHANGED <<sessionVars, registryVars, heap, held, gen>>

(***************************************************************************)
(* The scrape tool: agent/tools.py lines 83-170.  core/scrape.py, the      *)
(* client that retrieves the pages, is modelled as the specification       *)
(* describes it.                                                           *)
(***************************************************************************)
\* A target as Python sees it: a dict, a str, or something else.
EmptyDict == [k \in {} |-> ""]
DictTarget(d) == [type |-> "dict", dict |-> d, str |-> ""]
StrTarget(s) == [type |-> "str", dict |-> EmptyDict, str |-> s]
OtherTarget == [type |-> "int", dict |-> EmptyDict, str |-> ""]
TargetEntries ==
  {DictTarget([link |-> "x", title |-> "tx"]), DictTarget([link |-> "y"]),
   DictTarget([title |-> "t"]), StrTarget("x"), OtherTarget}
ScrapeArgs == {[k \in {"targets"} |-> l] : l \in SeqsUpTo(TargetEntries, MaxTargets)}

\* isinstance(target, dict) and "link" in target, or isinstance(target, str)
is_dict_with_link(target) == target.type = "dict" /\ "link" \in DOMAIN target.dict
is_str(target) == target.type = "str"

\* Lines 112-124: the entries that have a link, in order, as title and link;
\* the other entries are passed over.
validate_targets(targets) ==
  LET kept == SelectSeq(targets, LAMBDA t : is_dict_with_link(t) \/ is_str(t))
  IN [i \in 1..Len(kept) |->
        IF is_dict_with_link(kept[i])
          THEN [title |-> Get(kept[i].dict, "title", "Unknown"),
                link |-> kept[i].dict["link"]]
          ELSE [title |-> "Unknown", link |-> kept[i].str]]

\* What a retrieval gives for a page: no text at all, or a text of some
\* length.
NoContent == [absent |-> TRUE, len |-> 0]
Text(n) == [absent |-> FALSE, len |-> n]
MinContent == 50
MaxDisplay == 2000
Contents ==
  {NoContent} \cup
  {Text(n) : n \in {0, 10, MinContent, MinContent + 1, 500, MaxDisplay,
                    MaxDisplay + 1}}

\* core.scrape.scrape_multiple: a mapping with an entry for every link asked
\* for, whatever its retrieval gave.
LinksOf(urls_data) == {urls_data[i].link : i \in 1..Len(urls_data)}
scrape_multiple(urls_data, contents) ==
  [url \in LinksOf(urls_data) |-> contents[url]]

\* `content and len(content) >= 50`
meaningful_at_least(content) ==
  ~content.absent /\ content.len # 0 /\ content.len >= MinContent

\* `content and len(content) > 50`
meaningful(content) ==
  ~content.absent /\ content.len # 0 /\ content.len > MinContent

\* Lines 160-167 for one entry of the results: the text, its first 2000
\* characters followed by "..." when it is longer, or the placeholder.
scraped_part(url, content) ==
  IF meaningful(content)
    THEN [url |-> url, placeholder |-> FALSE,
          shown |-> IF content.len > MaxDisplay THEN MaxDisplay ELSE content.len,
          ellipsis |-> content.len > MaxDisplay]
    ELSE [url |-> url, placeholder |-> TRUE, shown |-> 0, ellipsis |-> FALSE]

\* The loop of lines 160-167 passing over the entries that are not
\* meaningful.
format_scraped_meaningful(results) ==
  {scraped_part(url, results[url]) :
     url \in {u \in DOMAIN results : meaningful(results[u])}}

\* The loop of lines 160-167: one part per entry of the results.
format_scraped(results) ==
  {scraped_part(url, results[url]) : url \in DOMAIN results}

\* Lines 134-170 reporting an exception of the client as a run that
\* retrieved nothing.
scrape_response_swallow(raises, results, urls_data) ==
  IF raises \/ DOMAIN results = {}
    THEN [kind |-> "Failed to scrape any content"]
  ELSE [kind |-> "Successfully scraped",
        success_count |->
          Cardinality({url \in DOMAIN results : meaningful(results[url])}),
        total |-> Len(urls_data),
        parts |-> format_scraped(results)]

\* The response of darkweb_scrape once the targets are validated (lines
\* 134-170): the client raised, or it returned `results`.
scrape_response(raises, results, urls_data) ==
  IF raises THEN [kind |-> "Scraping failed"]
  ELSE IF DOMAIN results = {} THEN [kind |-> "Failed to scrape any content"]
  ELSE [kind |-> "Successfully scraped",
        success_count |->
          Cardinality({url \in DOMAIN results : meaningful(results[url])}),
        total |-> Len(urls_data),
        parts |-> format_scraped(results)]

\* darkweb_scrape(args): were the client to run, it retrieves `contents`, or
\* it raises.
darkweb_scrape(args, contents, raises) ==
  LET targets == args["targets"]
      max_workers == Get(args, "max_workers", 5)
      urls_data == validate_targets(targets)
      dispatched == targets # <<>> /\ urls_data # <<>>
      results == IF dispatched /\ ~raises
                   THEN scrape_multiple(urls_data, contents) ELSE EmptyDict
      response ==
        IF targets = <<>> THEN [kind |-> "No targets provided"]
        ELSE IF urls_data = <<>> THEN [kind |-> "Invalid target format"]
        ELSE scrape_response(raises, results, urls_data)
  IN /\ tool' = [name |-> "darkweb_scrape", args |-> args,
                 client_max_workers |-> max_workers,
                 urls_data |-> urls_data, dispatched |-> dispatched,
                 raises |-> raises, results |-> results,
                 response |-> response]
     /\ UNCHANGED <<sessionVars, registryVars, heap, held, gen>>

\* The arguments that get past the validation, and those that do not.
ScrapeArgsValid == {a \in ScrapeArgs : validate_targets(a["targets"]) # <<>>}
ScrapeArgsInvalid == ScrapeArgs \ ScrapeArgsValid

(***************************************************************************)
(* The report tool: agent/tools.py lines 181-219.  A file name is the      *)
(* sequence of its characters.                                             *)
(***************************************************************************)
\* str.endswith
endswith(s, suffix) ==
  /\ Len(s) >= Len(suffix)
  /\ SubSeq(s, Len(s) - Len(suffix) + 1, Len(s)) = suffix

MD == <<".", "m", "d">>
ROBIN_REPORT == <<"r", "o", "b", "i", "n", "_", "r", "e", "p", "o", "r", "t", "_">>

\* datetime.now().strftime("%Y-%m-%d_%H-%M-%S") at two moments.
Moments == 0..1
strftime(t) ==
  <<"2", "0", "2", "6", "-", "0", "1", "-", "0", "1", "_",
    "0", "0", "-", "0", "0", "-", "0", ToString(t)>>

\* The file names a caller passes; an absent one is left out of the args.
FileNames ==
  {<<>>, <<"r">>, <<"r", ".", "m", "d">>, MD, <<"m", "d">>,
   <<"r", ".", "M", "D">>, <<"r", ".", "m", "d", "x">>}
ReportArgs ==
  {[k \in {"content"} |-> <<"c">>]} \cup
  {[k \in {"content", "filename"} |-> IF k = "content" THEN <<"c">> ELSE f] :
     f \in FileNames}

\* Lines 194-201 with the extension added to every name.
report_filename_append(filename, t) ==
  (IF filename = <<>> THEN ROBIN_REPORT \o strftime(t) \o MD ELSE filename) \o MD

\* Lines 194-201: the name the report is written under.
report_filename(filename, t) ==
  LET named == IF filename = <<>>
                 THEN ROBIN_REPORT \o strftime(t) \o MD ELSE filename
  IN IF ~endswith(named, MD) THEN named \o MD ELSE named

\* save_report(args) at the moment t; the write succeeds or raises.
save_report(args, t, write_fails) ==
  LET content == args["content"]
      filename == report_filename(Get(args, "filename", <<>>), t)
  IN /\ tool' = [name |-> "save_report", args |-> args, now |-> t,
                 filename |-> filename, write_fails |-> write_fails,
                 written |-> IF write_fails THEN <<>> ELSE content,
                 response |->
                   IF write_fails THEN [kind |-> "Failed to save report"]
                   ELSE [kind |-> "Report saved successfully",
                         filename |-> filename]]
     /\ UNCHANGED <<sessionVars, registryVars, heap, held, gen>>

\* A search with many results: the first source returns n links, the
\* second repeats the first of them and the third fails.
ManyResults(n) ==
  [s \in Sources |->
     IF s = 1 THEN [ok |-> TRUE, links |-> [i \in 1..n |-> ToString(i)]]
     ELSE IF s = 2 THEN [ok |-> TRUE, links |-> <<ToString(1)>>]
     ELSE [ok |-> FALSE, links |-> <<>>]]
ManySizes == (DisplayLimit - 1)..(DisplayLimit + 2)

\* A behaviour of the tools makes one tool call.
ToolsNext ==
  \/ /\ tool.name = "none"
     /\ \E args \in SearchArgs, answers \in [Sources -> SourceAnswers],
           order \in CompletionOrders :
          darkweb_search(args, answers, order, FALSE)
  \/ /\ tool.name = "none"
     /\ \E args \in SearchArgs, n \in ManySizes :
          darkweb_search(args, ManyResults(n), RosterOrder, FALSE)
  \/ /\ tool.name = "none"
     /\ \E args \in SearchArgs :
          darkweb_search(args, ManyResults(1), RosterOrder, TRUE)
  \/ /\ tool.name = "none"
     /\ \E args \in ScrapeArgsValid :
          \E contents \in [LinksOf(validate_targets(args["targets"])) -> Contents] :
            darkweb_scrape(args, contents, FALSE)
  \/ /\ tool.name = "none"
     /\ \E args \in ScrapeArgsValid :
          darkweb_scrape(args, [url \in LinksOf(validate_targets(args["targets"])) |-> NoContent], TRUE)
  \/ /\ tool.name = "none"
     /\ \E args \in ScrapeArgsInvalid : darkweb_scrape(args, EmptyDict, FALSE)
  \/ /\ tool.name = "none"
     /\ \E args \in ReportArgs, t \in Moments, write_fails \in BOOLEAN :
          save_report(args, t, write_fails)

ToolsSpec == Init /\ [][ToolsNext]_vars

(***************************************************************************)
(* The delegation tool: agent/tools.py lines 222-306.  agent/subagents.py, *)
(* which holds the registry lookup and the worker pool, is modelled as the *)
(* specification describes it.                                             *)
(***************************************************************************)
\* get_available_subagents returning the registry itself.
get_available_subagents_alias(h) == [heap |-> h, ref |-> 1]

\* agent.subagents.get_available_subagents: a copy of the registry, a new
\* dict in memory.
get_available_subagents(h) == [heap |-> Append(h, h[1]), ref |-> Len(h) + 1]

\* What a caller can do to a mapping it holds.
DictEdits == {"add", "remove", "change"}
dict_edit(d, op) ==
  CASE op = "add" -> dict_set(d, "Test", <<"test">>)
    [] op = "remove" -> dict_pop(d, "IOCExtractor").d
    [] op = "change" -> dict_set(d, "MalwareAnalyst", <<"changed">>)

\* A caller looks the registry up and holds the mapping returned.
lookup ==
  /\ tool.name = "none"
  /\ held.ops < MaxEdits
  /\ LET r == get_available_subagents(heap) IN
       /\ heap' = r.heap
       /\ held' = [ref |-> r.ref, ops |-> held.ops + 1]
  /\ UNCHANGED <<sessionVars, registryVars, tool, gen>>

\* The caller changes the mapping it holds.
edit(op) ==
  /\ tool.name = "none"
  /\ held.ops < MaxEdits
  /\ held.ref # 0
  /\ heap' = [heap EXCEPT ![held.ref] = dict_edit(@, op)]
  /\ held' = [held EXCEPT !.ops = @ + 1]
  /\ UNCHANGED <<sessionVars, registryVars, tool, gen>>

\* SubAgentResult(agent_type, analysis, success, error)
SubAgentResult(agent_type, analysis, success, error) ==
  [agent_type |-> agent_type, analysis |-> analysis, success |-> success,
   error |-> error]

\* agent.subagents.run_subagent: the result of one worker, which succeeds
\* or fails.
run_subagent(agent_type, content, context, fails) ==
  IF fails
    THEN SubAgentResult(agent_type, <<>>, FALSE, <<"error of", agent_type>>)
    ELSE SubAgentResult(agent_type, <<"analysis by", agent_type, content>>,
                        TRUE, None)

\* The orders in which n concurrent workers can finish.
FinishOrders(n) ==
  {p \in [1..n -> 1..n] : \A i, j \in 1..n : p[i] = p[j] => i = j}

\* agent.subagents.run_subagents_parallel: the workers run concurrently and
\* finish in the order `finish`; the results are in the order of the
\* request.
run_subagents_parallel(agent_types, content, context, fails, finish) ==
  LET done == [k \in 1..Len(agent_types) |->
                 [index |-> finish[k],
                  result |-> run_subagent(agent_types[finish[k]], content,
                                          context, fails[finish[k]])]]
  IN [i \in 1..Len(agent_types) |->
        done[CHOOSE k \in 1..Len(agent_types) : done[k].index = i].result]

\* Line 262 stopping at the first invalid kind.
invalid_types_first(agent_types, available) ==
  LET invalid == SelectSeq(agent_types, LAMBDA a : a \notin DOMAIN available)
  IN IF invalid = <<>> THEN <<>> ELSE <<invalid[1]>>

\* invalid = [a for a in agent_types if a not in available]
invalid_types(agent_types, available) ==
  SelectSeq(agent_types, LAMBDA a : a \notin DOMAIN available)

\* The loop of lines 293-297 listing the successful results only.
format_results_successes(results) ==
  LET ok == SelectSeq(results, LAMBDA r : r.success)
  IN [i \in 1..Len(ok) |->
        [agent_type |-> ok[i].agent_type, failed |-> FALSE,
         body |-> ok[i].analysis]]

\* The loop of lines 293-297: one section per result, in order.
format_results(results) ==
  [i \in 1..Len(results) |->
     IF results[i].success
       THEN [agent_type |-> results[i].agent_type, failed |-> FALSE,
             body |-> results[i].analysis]
       ELSE [agent_type |-> results[i].agent_type, failed |-> TRUE,
             body |-> results[i].error]]

\* delegate_analysis(args): were the workers to run, worker i fails when
\* fails[i], they finish in the order `finish`, and the pool as a whole
\* raises when `raises`.
delegate_analysis(args, fails, finish, raises) ==
  LET agent_types == args["agent_types"]
      content == args["content"]
      context == Get(args, "context", <<>>)
      r == get_available_subagents(heap)
      available == r.heap[r.ref]
      invalid == invalid_types(agent_types, available)
      validated == agent_types # <<>> /\ invalid = <<>> /\ content # <<>>
      response ==
        IF agent_types = <<>>
          THEN [kind |-> "No agents specified", agent_list |-> available]
        ELSE IF invalid # <<>>
          THEN [kind |-> "Invalid agent types", invalid |-> invalid,
                valid |-> DOMAIN available]
        ELSE IF content = <<>> THEN [kind |-> "No content provided"]
        ELSE IF raises THEN [kind |-> "Sub-agent execution failed"]
        ELSE [kind |-> "Sub-Agent Analysis Results",
              delegated_to |-> agent_types,
              sections |-> format_results(
                run_subagents_parallel(agent_types, content, context,
                                       fails, finish))]
  IN /\ tool' = [name |-> "delegate_analysis", args |-> args,
                 fails |-> fails, finish |-> finish, raises |-> raises,
                 dispatched |-> validated, response |-> response]
     /\ UNCHANGED <<sessionVars, registryVars, heap, held, gen>>

\* The arguments of the exploration: up to MaxKinds kinds, two of the
\* registry's, one unknown and the one a caller may have added to its copy;
\* content that is empty or not.
KindNames == {"IOCExtractor", "MalwareAnalyst", "Bogus", "Test"}
DelegateArgs ==
  {[k \in {"agent_types", "content"} |->
      IF k = "agent_types" THEN l ELSE c] :
     l \in SeqsUpTo(KindNames, MaxKinds), c \in {<<>>, <<"c">>}}

\* Does the validation of lines 250-277 let the arguments through, for the
\* registry as it is?
Dispatches(args) ==
  /\ args["agent_types"] # <<>>
  /\ invalid_types(args["agent_types"],
                   get_available_subagents(heap).heap[
                     get_available_subagents(heap).ref]) = <<>>
  /\ args["content"] # <<>>

WorkersNext ==
  \/ lookup
  \/ \E op \in DictEdits : edit(op)
  \/ /\ tool.name = "none"
     /\ \E args \in {a \in DelegateArgs : Dispatches(a)} :
          \E fails \in [1..Len(args["agent_types"]) -> BOOLEAN],
             finish \in FinishOrders(Len(args["agent_types"])) :
            delegate_analysis(args, fails, finish, FALSE)
  \/ /\ tool.name = "none"
     /\ \E args \in {a \in DelegateArgs : Dispatches(a)} :
          delegate_analysis(args, [i \in 1..Len(args["agent_types"]) |-> FALSE],
                            [i \in 1..Len(args["agent_types"]) |-> i], TRUE)
  \/ /\ tool.name = "none"
     /\ \E args \in {a \in DelegateArgs : ~Dispatches(a)} :
          delegate_analysis(args, <<>>, <<>>, FALSE)

WorkersSpec == Init /\ [][WorkersNext]_vars

(***************************************************************************)
(* RobinAgent.investigate as a generator: client.py lines 100-176.  One    *)
(* run of it on a new RobinAgent, with the three callbacks set: what it    *)
(* yields to its caller and what it passes to the callbacks, for both      *)
(* values of `stream`.  As in a session, the ResultMessage is the last     *)
(* message of the engine's stream.                                         *)
(***************************************************************************)
\* The texts of the TextBlocks and of the ResultMessage of a run.
BlockTexts == {<<>>, <<"a">>, <<"b">>}
FinalTexts == {<<>>, <<"a">>, <<"c">>}

\* Lines 121-124: the state of the generator before the first message.
investigate_begin(stream) ==
  [pc |-> "running", stream |-> stream, session_id |-> None,
   tools_used |-> <<>>, full_response |-> <<>>, messages |-> 0,
   chunks |-> <<>>, on_text |-> <<>>, on_tool_use |-> <<>>,
   on_complete |-> <<>>]

\* Lines 128-131: the init message.
investigate_init(g, data) ==
  [g EXCEPT !.session_id = IF Truthy(data) THEN Get(data, "session_id", None)
                           ELSE g.session_id]

\* Lines 136-142: a TextBlock.
investigate_text(g, text) ==
  [g EXCEPT !.full_response = g.full_response \o text,
            !.on_text = Append(g.on_text, text),
            !.chunks = IF g.stream THEN Append(g.chunks, text) ELSE g.chunks]

\* Lines 143-151: a ToolUseBlock.
investigate_tool_use(g, name, input_data) ==
  [g EXCEPT !.tools_used = record_tool_use(g.tools_used, name, input_data),
            !.on_tool_use = Append(g.on_tool_use,
                                   [name |-> name, input |-> input_data])]

\* Lines 153-173 with the new result text appended and passed to on_text,
\* but not yielded.
investigate_result_unyielded(g, result_text) ==
  LET appended == result_text # <<>> /\ ~IsSubstring(result_text, g.full_response)
      text == IF appended THEN g.full_response \o result_text
              ELSE g.full_response
  IN [g EXCEPT !.full_response = text,
               !.on_text = IF appended THEN Append(g.on_text, result_text)
                           ELSE g.on_text,
               !.on_complete =
                 Append(g.on_complete,
                        InvestigationResult(text, g.session_id, g.tools_used)),
               !.pc = "after_result"]

\* Lines 153-173: the ResultMessage.
investigate_result(g, result_text) ==
  LET appended == result_text # <<>> /\ ~IsSubstring(result_text, g.full_response)
      text == IF appended THEN g.full_response \o result_text
              ELSE g.full_response
  IN [g EXCEPT !.full_response = text,
               !.on_text = IF appended THEN Append(g.on_text, result_text)
                           ELSE g.on_text,
               !.chunks = IF appended /\ g.stream
                            THEN Append(g.chunks, result_text) ELSE g.chunks,
               !.on_complete =
                 Append(g.on_complete,
                        InvestigationResult(text, g.session_id, g.tools_used)),
               !.pc = "after_result"]

\* Lines 175-176: the engine's stream is exhausted.
investigate_end(g) ==
  [g EXCEPT !.chunks = IF ~g.stream THEN Append(g.chunks, g.full_response)
                       ELSE g.chunks,
            !.pc = "done"]

\* A caller starts iterating investigate(query_text, stream).
Investigate(stream) ==
  /\ gen.pc = "none"
  /\ gen' = investigate_begin(stream)
  /\ UNCHANGED <<sessionVars, registryVars, toolVars>>

\* The generator handles the next message of the engine's stream.
Handle(g) ==
  /\ gen' = [g EXCEPT !.messages = gen.messages + 1]
  /\ UNCHANGED <<sessionVars, registryVars, toolVars>>

GenInitMessage(data) ==
  /\ gen.pc = "running"
  /\ gen.messages = 0
  /\ Handle(investigate_init(gen, data))

GenTextBlock(text) ==
  /\ gen.pc = "running"
  /\ gen.messages < MaxMessages
  /\ Handle(investigate_text(gen, text))

GenToolUseBlock(name, input_data) ==
  /\ gen.pc = "running"
  /\ gen.messages < MaxMessages
  /\ Handle(investigate_tool_use(gen, name, input_data))

GenResultMessage(result_text) ==
  /\ gen.pc = "running"
  /\ Handle(investigate_result(gen, result_text))

GenStreamEnd ==
  /\ gen.pc \in {"running", "after_result"}
  /\ gen' = investigate_end(gen)
  /\ UNCHANGED <<sessionVars, registryVars, toolVars>>

InvestigateNext ==
  \/ \E stream \in BOOLEAN : Investigate(stream)
  \/ /\ gen.pc = "running"
     /\ \E data \in InitDatas : GenInitMessage(data)
  \/ /\ gen.pc = "running"
     /\ \E text \in BlockTexts : GenTextBlock(text)
  \/ /\ gen.pc = "running"
     /\ \E u \in ToolUses : GenToolUseBlock(u[1], u[2])
  \/ /\ gen.pc = "running"
     /\ \E result_text \in FinalTexts : GenResultMessage(result_text)
  \/ GenStreamEnd

InvestigateSpec == Init /\ [][InvestigateNext]_vars

(***************************************************************************)
(* Reading the event stream.                                               *)
(***************************************************************************)
Pos(type) == {i \in 1..Len(events) : events[i].type = type}
Count(type) == Cardinality(Pos(type))

\* The positions of the events of a type among the first n events.
PosUpTo(type, n) == {i \in Pos(type) : i <= n}

\* The ToolStart that immediately precedes position i.
StartBefore(i) == {j \in Pos("tool_start") :
                     j < i /\ \A m \in Pos("tool_start") : m < i => m <= j}

\* The tool-use signal whose ToolStart introduced the id.
SigOfId(id) ==
  tags[CHOOSE j \in Pos("tool_start") : events[j].data.id = id].sig

\* The WorkerStart events of the k-th tool-use signal, in stream order.
IsWorkerStartOf(k, i) ==
  events[i].type = "subagent_start" /\ tags[i].sig = k
WorkerStartIdx(k) == {i \in 1..Len(events) : IsWorkerStartOf(k, i)}
RECURSIVE WorkerKinds(_, _)
WorkerKinds(k, n) ==
  IF n = 0 THEN <<>>
  ELSE IF IsWorkerStartOf(k, n)
         THEN Append(WorkerKinds(k, n - 1), events[n].data.agent_type)
         ELSE WorkerKinds(k, n - 1)

\* The first call has returned after its completion signal and every task
\* it scheduled has run.
FirstCallCompleted ==
  /\ call.no = 1
  /\ call.outcome = "returned"
  /\ result # <<>>
  /\ ready = <<>>

(***************************************************************************)
(* Tool lifecycle correlation.                                             *)
(***************************************************************************)
\* C1: a call that fires n tool-use signals and then the completion signal
\* emits exactly n ToolStart and n ToolEnd events, and every ToolEnd
\* carries the id of the ToolStart immediately preceding it in the stream.
C1_ToolLifecycle ==
  FirstCallCompleted =>
    /\ Count("tool_start") = Len(tools_used)
    /\ Count("tool_end") = Len(tools_used)
    /\ \A i \in Pos("tool_end") :
         \E j \in StartBefore(i) : events[j].data.id = events[i].data.id

\* C2: when a tool-use signal arrives while the previous tool is open (its
\* ToolStart is in the stream and no ToolEnd for it is), a ToolEnd with the
\* previous tool's id and name precedes the ToolStart of the new tool.
C2_ImplicitEndBeforeStart ==
  \A k \in 1..Len(sig_log) :
    sig_log[k].prev_open =>
      \A p \in StartPos(k) :
        \E q \in Pos("tool_end") :
          /\ q < p
          /\ events[q].data.id = sig_log[k].prev_id
          /\ events[q].data.tool = tools_used[k - 1].name

\* C2, the case: a tool-use signal found the previous tool, of another name,
\* open, and its own ToolStart has been emitted.
C2_Witness ==
  \E k \in 1..Len(sig_log) :
    /\ sig_log[k].prev_open
    /\ StartPos(k) # {}
    /\ tools_used[k].name # tools_used[k - 1].name

\* C3: when Complete is emitted, every ToolStart before it has its ToolEnd
\* before it.
C3_ClosedBeforeComplete ==
  \A p \in Pos("complete") :
    \A j \in PosUpTo("tool_start", p) :
      \E q \in PosUpTo("tool_end", p) :
        j < q /\ events[q].data.id = events[j].data.id

\* C4: the id of every ToolEnd was introduced by an earlier ToolStart.
C4_EndRefersToStart ==
  \A i \in Pos("tool_end") :
    \E j \in Pos("tool_start") :
      j < i /\ events[j].data.id = events[i].data.id

\* C4, the case: a ToolEnd has been emitted.
C4_Witness == Pos("tool_end") # {}

\* C5: at most one tool is open: in every prefix of the stream the
\* ToolStart events outnumber the ToolEnd events by at most one.
C5_AtMostOneOpen ==
  \A n \in 0..Len(events) :
    Cardinality(PosUpTo("tool_start", n))
      - Cardinality(PosUpTo("tool_end", n)) <= 1

(***************************************************************************)
(* Failure of the engine stream.                                           *)
(***************************************************************************)
\* C6: once the stream has raised, the session's stream holds exactly one
\* Error event and it is the last event.
C6_ErrorIsLast ==
  call.raised =>
    /\ Count("error") = 1
    /\ events[Len(events)].type = "error"

\* C7: when the stream raises, the call emits one Error event and raises
\* to its caller: it does not return a value.
C7_ErrorThenReraise ==
  call.raised =>
    /\ call.outcome = "raised"
    /\ call.value = <<>>
    /\ Cardinality({i \in Pos("error") : tags[i].call = call.no}) = 1

\* C7, the case: the stream of a call has raised after the call had
\* received its completion signal.
C7_Witness == call.raised /\ result # <<>>

(***************************************************************************)
(* Ordering and payloads.                                                  *)
(***************************************************************************)
\* C8: every event carries a sequence number, strictly increasing along
\* the order of delivery.
C8_SequenceNumbers ==
  \A i \in 1..Len(events) :
    /\ "sequence" \in DOMAIN events[i]
    /\ \A j \in 1..(i - 1) : events[j].sequence < events[i].sequence

\* C9: the duration of every ToolEnd is the time of the closing signal
\* minus the time of the tool-use signal of the tool it closes, and is not
\* negative.
C9_DurationOfClosedTool ==
  \A i \in Pos("tool_end") :
    /\ events[i].data.duration_ms =
         tags[i].at - sig_log[SigOfId(events[i].data.id)].time
    /\ events[i].data.duration_ms >= 0

\* C10: the WorkerStart events of a tool-use signal are, in order, the
\* agent_types of its input when its tool is the delegation tool and none
\* otherwise, and they follow the tool's ToolStart.
C10_WorkerStartPerKind ==
  \A k \in 1..Len(tools_used) :
    /\ StartPos(k) = {} => WorkerStartIdx(k) = {}
    /\ \A p \in StartPos(k) :
         /\ \A i \in WorkerStartIdx(k) : p < i
         /\ WorkerKinds(k, Len(events)) =
              IF tools_used[k].name = DELEGATE
                THEN Get(tools_used[k].input, "agent_types", <<>>)
                ELSE <<>>

\* C10, the case: the ToolStart of a delegation with worker kinds and the
\* ToolStart of another tool whose input has agent_types are in the stream.
C10_Witness ==
  /\ \E k \in 1..Len(tools_used) :
       /\ StartPos(k) # {}
       /\ tools_used[k].name = DELEGATE
       /\ WorkerStartIdx(k) # {}
  /\ \E k \in 1..Len(tools_used) :
       /\ StartPos(k) # {}
       /\ tools_used[k].name # DELEGATE
       /\ Get(tools_used[k].input, "agent_types", <<>>) # <<>>

(***************************************************************************)
(* Workers of a delegation.                                                *)
(***************************************************************************)
\* A call has returned after its completion signal and every task scheduled
\* so far has run: nothing more is emitted until another call starts.
Quiescent ==
  /\ pc = "idle"
  /\ call.outcome = "returned"
  /\ result # <<>>
  /\ ready = <<>>

\* C11: every WorkerStart is followed by a WorkerEnd of the same worker
\* kind: once a call has completed and its events are delivered, each
\* WorkerStart in the stream has a later WorkerEnd with its agent_type.
C11_WorkerEndFollows ==
  Quiescent =>
    \A i \in Pos("subagent_start") :
      \E j \in Pos("subagent_end") :
        i < j /\ events[j].data.agent_type = events[i].data.agent_type

(***************************************************************************)
(* Session continuity.                                                     *)
(***************************************************************************)
\* C12: the options of a call carry a resume token exactly when the agent
\* holds a session id: before the first message of the call's stream, the
\* token the call was issued with is the session id held, and there is no
\* token when none is held.
C12_ResumeIffSession ==
  pc = "start" =>
    /\ session_id # None => call.resume = session_id
    /\ session_id = None => call.resume = None

\* C12, the case: a call has been issued while a session id was held.
C12_Witness == pc = "start" /\ session_id \in SessionIds

\* What the stream of the current call delivered, from the call's history.
RECURSIVE Flatten(_)
Flatten(ss) == IF ss = <<>> THEN <<>> ELSE Head(ss) \o Flatten(Tail(ss))

\* s occurs in t as a contiguous run of characters.
Contains(s, t) ==
  \E i \in 1..(Len(t) + 1) :
    /\ i + Len(s) - 1 <= Len(t)
    /\ \A j \in 1..Len(s) : t[i + j - 1] = s[j]

\* The text of the current call's TextBlocks.
BlockText == Flatten(call.texts)

\* The final result text is new: not empty and not in the text of the
\* call's TextBlocks.
FinalIsNew ==
  /\ call.final # <<>>
  /\ call.final[1] # <<>>
  /\ ~Contains(call.final[1], BlockText)

\* The text of the current call: its TextBlocks, then the final result text
\* when it is new.
CallText == IF FinalIsNew THEN BlockText \o call.final[1] ELSE BlockText

\* C13: after reset_session the session id is None and the tool log is
\* empty; the next call is issued without a resume token, and the result it
\* builds holds the tool-use blocks and the text of that call alone.
C13_ResetStartsAfresh ==
  /\ fresh => session_id = None /\ agent_tools_used = <<>>
  /\ call.fresh => call.resume = None
  /\ (call.fresh /\ call.final # <<>>) =>
       /\ result # <<>>
       /\ result[1].tools_used = call.tools
       /\ result[1].text = CallText

\* C13, the case: the first call after a reset_session has built its result,
\* and an earlier call of the session had announced a tool.
C13_Witness ==
  /\ call.fresh
  /\ call.final # <<>>
  /\ \E k \in 1..Len(sig_log) : sig_log[k].call < call.no

(***************************************************************************)
(* The tool log and the text of a call.                                    *)
(***************************************************************************)
\* The tool-use signals the service received during the current call: one
\* per call of on_tool_use, in order.
SignalsOfCall ==
  LET n == Cardinality({k \in 1..Len(sig_log) : sig_log[k].call = call.no})
  IN SubSeq(tools_used, Len(tools_used) - n + 1, Len(tools_used))

\* C14: the tool log of the InvestigationResult a call builds is the
\* sequence of the {name, input} pairs of the call's ToolUseBlocks, in
\* order, and on_tool_use has been called once per block in that order.
C14_ToolLogIsAnnouncements ==
  /\ call.final # <<>> => result # <<>> /\ result[1].tools_used = call.tools
  /\ call.no > 0 => SignalsOfCall = call.tools

\* C14, the case: a call has built its result after two ToolUseBlocks with
\* the same name and input.
C14_Witness ==
  /\ call.final # <<>>
  /\ Len(call.tools) = 2
  /\ call.tools[1] = call.tools[2]

\* C15: a call whose stream is exhausted without a ResultMessage returns,
\* and the result it returns is built from the text and the tool log of
\* that call.
C15_BestEffortResult ==
  (call.outcome = "returned" /\ call.final = <<>>) =>
    /\ call.value # <<>>
    /\ call.value[1].text = BlockText
    /\ call.value[1].tools_used = call.tools

\* The text deliveries of the current call through on_text: the emit_text
\* tasks it has scheduled, run or not, in order.
TextDeliveries ==
  LET done == {i \in Pos("text") : tags[i].call = call.no}
      waiting == {i \in 1..Len(ready) :
                    ready[i].kind = "emit_text" /\ ready[i].g.call = call.no}
  IN Cardinality(done) + Cardinality(waiting)

\* C16: on the ResultMessage the result text is appended to the text of the
\* call, and delivered once through on_text, exactly when it is not empty
\* and not a substring of the text accumulated in the call; otherwise the
\* text is left as it was and nothing is delivered again.
C16_FinalTextOnce ==
  call.final # <<>> =>
    /\ inv_full_response = CallText
    /\ TextDeliveries = Len(call.texts) + (IF FinalIsNew THEN 1 ELSE 0)

\* C16, the case: the result text of a ResultMessage is a proper substring
\* of the text the call's TextBlocks had delivered.
C16_Witness ==
  /\ call.final # <<>>
  /\ call.final[1] # <<>>
  /\ Contains(call.final[1], BlockText)
  /\ call.final[1] # BlockText

(***************************************************************************)
(* investigate and follow_up.                                              *)
(***************************************************************************)
\* C17: follow_up behaves as investigate: started in the same state, the
\* two leave the service in the same state before the stream is read (from
\* there on they run the same code on the same stream).
C17_FollowUpAsInvestigate ==
  (pc = "idle" /\ call.outcome # "raised") =>
    start_full_response("follow_up") = start_full_response("investigate")

(***************************************************************************)
(* The status of an investigation.                                         *)
(***************************************************************************)
\* InvestigationStatus (models/investigation.py).
InvestigationStatus == {"pending", "running", "completed", "failed"}

\* The status the owner of the session keeps for it: Pending until the
\* first call starts, Running while a call reads its stream, Completed when
\* the call has returned and Failed when it has raised to the owner.
status ==
  IF call.no = 0 THEN "pending"
  ELSE IF pc # "idle" THEN "running"
  ELSE IF call.outcome = "raised" THEN "failed"
  ELSE "completed"

\* C18: the status moves only from Pending to Running and from Running to
\* Completed or Failed, and nothing changes it once it is Completed or
\* Failed.
C18_TerminalAbsorbing ==
  [][/\ status \in InvestigationStatus
     /\ status = "pending" => status' \in {"pending", "running"}
     /\ status = "running" => status' \in {"running", "completed", "failed"}
     /\ status \in {"completed", "failed"} => status' = status]_vars

(***************************************************************************)
(* The registry of active agents.                                          *)
(***************************************************************************)
\* The agent most recently stored for an id and not removed since, None
\* when there is none, from the first n calls of the history.
RECURSIVE Expected(_, _)
Expected(id, n) ==
  IF n = 0 THEN None
  ELSE IF reg_hist[n].id = id THEN reg_hist[n].agent
  ELSE Expected(id, n - 1)

\* C19: every registry call takes effect as one step: the entry of each id
\* is the agent most recently stored for it and not removed since, whatever
\* was done to the other ids; get_agent returns that entry; and no call
\* raises, remove_agent of an absent id included.
C19_RegistryAtomic ==
  /\ \A id \in UUIDs :
       Get(active_agents, str(id), None) = Expected(id, Len(reg_hist))
  /\ reg_ret.op = "get_agent" =>
       reg_ret.value = Expected(reg_ret.id, Len(reg_hist))
  /\ ~reg_ret.raised

\* C19, the case: remove_agent has been called for an id with no entry
\* while the other id had one.
C19_Witness ==
  /\ reg_ret.op = "remove_agent"
  /\ ~reg_ret.present
  /\ \E id \in UUIDs : id # reg_ret.id /\ str(id) \in DOMAIN active_agents

(***************************************************************************)
(* The search tool.                                                        *)
(***************************************************************************)
\* The number of raw results of the sources' answers.
RECURSIVE RawCount(_, _)
RawCount(answers, n) ==
  IF n = 0 THEN 0
  ELSE RawCount(answers, n - 1) +
       (IF answers[n].ok THEN Len(answers[n].links) ELSE 0)

SearchDone == tool.name = "darkweb_search" /\ ~tool.raises

\* C20: the results of a search hold no two entries with the same
\* normalized link, and there are no more of them than raw results of all
\* the sources together; the tool reports that count and lists those
\* entries.
C20_NoDuplicateLinks ==
  SearchDone =>
    /\ \A i, j \in 1..Len(tool.results) :
         normalize(tool.results[i].link) = normalize(tool.results[j].link)
           => i = j
    /\ Len(tool.results) <= RawCount(tool.answers, Len(tool.answers))
    /\ tool.response.kind = "Found" =>
         /\ tool.response.total_count = Len(tool.results)
         /\ \A i \in 1..Len(tool.response.display) :
              tool.response.display[i] = tool.results[i]

\* C20, the case: two sources have returned the same link in two
\* spellings, and two results are left.
C20_Witness ==
  /\ SearchDone
  /\ \E m, n \in Sources :
       /\ m # n
       /\ tool.answers[m].links = <<"a.onion">>
       /\ tool.answers[n].links = <<"b.onion", "a.onion/">>
  /\ Len(tool.results) = 2

\* The place of a raw result: source s of the roster, i-th hit.
Rank(s, i) == s * 1000 + i
Hits ==
  UNION {{<<s, i>> : i \in 1..Len(tool.answers[s].links)} :
           s \in {r \in Sources : tool.answers[r].ok}}
\* The first place, in roster order, where a link with this key was seen.
FirstSeen(key) ==
  CHOOSE h \in Hits :
    /\ normalize(tool.answers[h[1]].links[h[2]]) = key
    /\ \A g \in Hits :
         normalize(tool.answers[g[1]].links[g[2]]) = key
           => Rank(h[1], h[2]) <= Rank(g[1], g[2])
ResultRank(j) ==
  LET h == FirstSeen(normalize(tool.results[j].link)) IN Rank(h[1], h[2])

\* C21: the results of a search are in first-seen order over the roster:
\* every link the sources that answered returned is there once, as the
\* entry of the first source of the roster that returned it, and the
\* entries follow the roster, whatever order the sources completed in; a
\* source that failed contributes nothing.
C21_FirstSeenRosterOrder ==
  SearchDone =>
    /\ \A h \in Hits :
         \E j \in 1..Len(tool.results) :
           normalize(tool.results[j].link) =
             normalize(tool.answers[h[1]].links[h[2]])
    /\ \A j \in 1..Len(tool.results) :
         /\ \E h \in Hits :
              tool.results[j] = Entry(h[1], tool.answers[h[1]].links[h[2]])
         /\ LET h == FirstSeen(normalize(tool.results[j].link))
            IN tool.results[j] = Entry(h[1], tool.answers[h[1]].links[h[2]])
    /\ \A i, j \in 1..Len(tool.results) :
         i < j => ResultRank(i) < ResultRank(j)

\* C21, the case: the sources completed in the reverse of the roster's
\* order, the first two returned overlapping links and the third failed.
C21_Witness ==
  /\ SearchDone
  /\ tool.order = <<3, 2, 1>>
  /\ tool.answers[1].links = <<"a.onion", "b.onion">>
  /\ tool.answers[2].links = <<"b.onion", "a.onion/">>
  /\ ~tool.answers[3].ok
  /\ Len(tool.results) = 2

\* The kinds a delegation names and the text it passes, as the tool got them.
Requested == tool.args["agent_types"]
Delegated ==
  /\ tool.name = "delegate_analysis"
  /\ tool.response.kind = "Sub-Agent Analysis Results"

\* The section a worker of the given kind produces when it does not fail.
Unfailed(kind) ==
  [agent_type |-> kind, failed |-> FALSE,
   body |-> <<"analysis by", kind, tool.args["content"]>>]

Unknown == {Requested[i] : i \in {j \in 1..Len(Requested) :
                                    Requested[j] \notin DOMAIN SUBAGENT_DESCRIPTIONS}}

\* C23: a delegation naming unknown kinds is answered by the validation
\* response that names every one of them and the whole valid set; and
\* whenever the kind list is empty, a kind is unknown or the content is
\* empty, no worker is dispatched.
C23_ValidationBeforeDispatch ==
  tool.name = "delegate_analysis" =>
    /\ (Requested # <<>> /\ Unknown # {}) =>
         /\ tool.response.kind = "Invalid agent types"
         /\ {tool.response.invalid[i] : i \in 1..Len(tool.response.invalid)} = Unknown
         /\ tool.response.valid = DOMAIN SUBAGENT_DESCRIPTIONS
    /\ (Requested = <<>> \/ Unknown # {} \/ tool.args["content"] = <<>>) =>
         /\ ~tool.dispatched
         /\ tool.response.kind \in {"No agents specified", "Invalid agent types",
                                    "No content provided"}

\* C23 witness: a request of two different unknown kinds.
C23_Witness ==
  /\ tool.name = "delegate_analysis"
  /\ Requested = <<"Bogus", "Test">>
  /\ tool.response.kind = "Invalid agent types"
  /\ ~tool.dispatched

\* C29: whatever a caller adds to, removes from or changes in a mapping a
\* lookup returned, the registry keeps its four kinds, the next lookup
\* returns them, and delegate_analysis validates against them.
C29_LookupReturnsCopy ==
  /\ heap[1] = SUBAGENT_DESCRIPTIONS
  /\ get_available_subagents(heap).heap[get_available_subagents(heap).ref]
       = SUBAGENT_DESCRIPTIONS
  /\ tool.name = "delegate_analysis" =>
       /\ tool.dispatched => Unknown = {}
       /\ tool.response.kind = "Invalid agent types" =>
            tool.response.valid = DOMAIN SUBAGENT_DESCRIPTIONS
       /\ tool.response.kind = "No agents specified" =>
            tool.response.agent_list = SUBAGENT_DESCRIPTIONS

\* C29 witness: a caller added a kind to the mapping it got, looked the
\* registry up again, and then a delegation named the added kind.
C29_Witness ==
  /\ Len(heap) >= 3
  /\ "Test" \in DOMAIN heap[2]
  /\ heap[held.ref] = SUBAGENT_DESCRIPTIONS
  /\ tool.name = "delegate_analysis"
  /\ Requested = <<"Test">>
  /\ tool.response.kind = "Invalid agent types"

\* The targets of a scrape as the tool got them, and the links among them.
Targets == tool.args["targets"]
HasLink(target) ==
  \/ target.type = "str"
  \/ target.type = "dict" /\ "link" \in DOMAIN target.dict
LinkOf(target) == IF target.type = "str" THEN target.str ELSE target.dict["link"]
RequestedLinks ==
  {LinkOf(Targets[i]) : i \in {j \in 1..Len(Targets) : HasLink(Targets[j])}}
Scraped ==
  /\ tool.name = "darkweb_scrape"
  /\ tool.dispatched
  /\ ~tool.raises

\* C24: a scrape of an empty target list, or of a list with an entry that
\* has no link, is answered by a validation response and nothing is
\* dispatched to the client.
C24_MalformedTargetRejected ==
  (/\ tool.name = "darkweb_scrape"
   /\ \/ Targets = <<>>
      \/ \E i \in 1..Len(Targets) : ~HasLink(Targets[i]))
    => /\ tool.response.kind \in {"No targets provided", "Invalid target format"}
       /\ ~tool.dispatched

\* C25: a scrape that passed the validation and whose client did not raise
\* reports exactly the requested links that are valid, whatever the
\* retrievals gave.
C25_ReportedLinksAreRequested ==
  Scraped =>
    /\ tool.response.kind = "Successfully scraped"
    /\ {part.url : part \in tool.response.parts} = RequestedLinks

\* C25 witness: two links requested, one retrieval gave nothing and the other
\* an empty text.
C25_Witness ==
  /\ Scraped
  /\ RequestedLinks = {"x", "y"}
  /\ tool.results["x"] = NoContent
  /\ tool.results["y"] = Text(0)
  /\ Cardinality(tool.response.parts) = 2

\* C26: a link is reported with its text exactly when the text is longer
\* than 50 characters, and with the placeholder when the text is shorter,
\* empty or absent; the success count is the number of links reported with
\* their text and is at most the number of targets.
C26_MeaningfulAboveFifty ==
  Scraped =>
    /\ \A part \in tool.response.parts :
         part.placeholder <=>
           (tool.results[part.url].absent \/ tool.results[part.url].len <= 50)
    /\ tool.response.success_count =
         Cardinality({part \in tool.response.parts : ~part.placeholder})
    /\ tool.response.success_count <= Len(Targets)

\* C26 witness: one text of exactly 50 characters and one of 51.
C26_Witness ==
  /\ Scraped
  /\ DOMAIN tool.results = {"x", "y"}
  /\ tool.results["x"] = Text(50)
  /\ tool.results["y"] = Text(51)
  /\ tool.response.success_count = 1

\* C27: an exception of the search client is answered by the search-failed
\* response and an empty result list by the no-results response; an
\* exception of the scrape client is answered by the scraping-failed
\* response, which a run that retrieved no meaningful content never gets.
C27_FailureToldFromEmpty ==
  /\ tool.name = "darkweb_search" =>
       /\ tool.raises <=> tool.response.kind = "Search failed"
       /\ (~tool.raises /\ tool.results = <<>>) =>
            tool.response.kind = "No results found"
  /\ (tool.name = "darkweb_scrape" /\ tool.dispatched) =>
       /\ tool.raises <=> tool.response.kind = "Scraping failed"
       /\ (~tool.raises /\ \A url \in DOMAIN tool.results :
                             tool.results[url].absent \/ tool.results[url].len <= 50)
            => /\ tool.response.kind = "Successfully scraped"
               /\ tool.response.success_count = 0

\* C27 witness: the scrape client raised on a list of valid targets.
C27_Witness ==
  /\ tool.name = "darkweb_scrape"
  /\ tool.dispatched
  /\ tool.raises
  /\ tool.response.kind = "Scraping failed"

\* C28: a search with n > 0 results shows the first min(n, 50) of them in
\* order, reports the count n, and has the "N more" line, with N = n - 50,
\* exactly when n > 50.
C28_DisplayCap ==
  (SearchDone /\ ~tool.raises /\ Len(tool.results) > 0) =>
    LET n == Len(tool.results) IN
    /\ tool.response.kind = "Found"
    /\ tool.response.total_count = n
    /\ tool.response.display = SubSeq(tool.results, 1, IF n < 50 THEN n ELSE 50)
    /\ tool.response.more # <<>> <=> n > 50
    /\ n > 50 => tool.response.more = <<n - 50>>

\* C28 witness: a search with 52 results.
C28_Witness ==
  /\ SearchDone
  /\ Len(tool.results) = 52
  /\ Len(tool.response.display) = 50
  /\ tool.response.more = <<2>>

\* The file name a save_report call was given, empty when it was given none.
Supplied == Get(tool.args, "filename", <<>>)
EndsWithMd(s) ==
  /\ Len(s) >= 3
  /\ s[Len(s) - 2] = "."
  /\ s[Len(s) - 1] = "m"
  /\ s[Len(s)] = "d"

\* C30: the name save_report writes under ends with ".md": the supplied name
\* itself when it ends so, the supplied name followed by one ".md" when it
\* does not, and "robin_report_<timestamp>.md" when none was supplied; a
\* failed write is answered by the failure response.
C30_ReportNameEndsWithMd ==
  tool.name = "save_report" =>
    /\ EndsWithMd(tool.filename)
    /\ (Supplied # <<>> /\ EndsWithMd(Supplied)) => tool.filename = Supplied
    /\ (Supplied # <<>> /\ ~EndsWithMd(Supplied)) =>
         tool.filename = Supplied \o <<".", "m", "d">>
    /\ Supplied = <<>> =>
         tool.filename = ROBIN_REPORT \o strftime(tool.now) \o <<".", "m", "d">>
    /\ tool.write_fails => tool.response.kind = "Failed to save report"
    /\ ~tool.write_fails =>
         /\ tool.response = [kind |-> "Report saved successfully",
                             filename |-> tool.filename]
         /\ tool.written = tool.args["content"]

\* C30 witness: a report saved under a supplied name that ends with ".md".
C30_Witness ==
  /\ tool.name = "save_report"
  /\ Supplied = <<"r", ".", "m", "d">>
  /\ tool.filename = <<"r", ".", "m", "d">>
  /\ ~tool.write_fails

(***************************************************************************)
(* The stream over several calls and schedules.                            *)
(***************************************************************************)
\* C31: no tool invocation id is carried by more than one ToolEnd event.
C31_OneToolEndPerId ==
  \A i, j \in Pos("tool_end") :
    events[i].data.id = events[j].data.id => i = j

\* The Complete events of a call.
CompleteOf(c) == {i \in Pos("complete") : tags[i].call = c}

C34_TokenNeverLost ==
  (call.no >= 1 /\ call.resume # None /\ ~fresh) => session_id # None

(***************************************************************************)
(* The chunks and the callbacks of investigate.                            *)
(***************************************************************************)
\* C35: in a run of investigate with stream=True the chunks yielded, put
\* together in order, are the on_text arguments put together in order, and
\* they are the text of the InvestigationResult passed to on_complete; with
\* stream=False the on_text arguments put together are that text as well,
\* nothing is yielded before the end, and at the end one chunk is yielded,
\* the whole accumulated text.
C35_ChunksTextAndResultAgree ==
  gen.pc # "none" =>
    /\ \A i \in 1..Len(gen.on_complete) :
         gen.on_complete[i].text = Flatten(gen.on_text)
    /\ gen.stream => Flatten(gen.chunks) = Flatten(gen.on_text)
    /\ (~gen.stream /\ gen.pc # "done") => gen.chunks = <<>>
    /\ (~gen.stream /\ gen.pc = "done") =>
         gen.chunks = <<Flatten(gen.on_text)>>

\* C35 witness: a streaming run of two TextBlocks and a ResultMessage with
\* a new result text has ended.
C35_Witness ==
  /\ gen.pc = "done"
  /\ gen.stream
  /\ gen.chunks = << <<"a">>, <<"b">>, <<"c">> >>
  /\ Len(gen.on_complete) = 1
  /\ gen.on_complete[1].text = <<"a", "b", "c">>

====
